---- MODULE Spec2Model ----
(***************************************************************************)
(* Fleet Dashboard API (backend/app.py): a Flask server with four routes   *)
(* over a literal pandas table that every request rebuilds.                *)
(*                                                                         *)
(* Values.  A DataFrame is a record                                        *)
(*   [index_name, index, columns, dtypes, rows]                            *)
(* with rows a sequence of tuples, one cell per column.  A float cell is   *)
(* exact: the mean of a group is the fraction [num, den], and a float      *)
(* rounded to one decimal is [tenths |-> t], standing for t / 10 (85.5 is  *)
(* [tenths |-> 855]).  All sums are of integers below 2^53, so float64     *)
(* holds them exactly, and a mean sum/n with n < 20 is a tie of round(1)   *)
(* only when it is a multiple of 1/4, which float64 holds exactly too.     *)
(* A str is a TLA+ string; its code points (CodePoints) give Python's      *)
(* ordering of strings.                                                    *)
(***************************************************************************)
EXTENDS Integers, Sequences, FiniteSets, TLC

VARIABLES
    pc,        \* pc[t]: where worker thread t stands in its handler
    req,       \* req[t]: the request t serves, [endpoint, fleet_id]
    df,        \* df[t]: the handler's local df
    data,      \* data[t]: get_all_fleet_data's local data
    summary,   \* summary[t]: get_fleet_summary's local summary
    fleet_df,  \* fleet_df[t]: get_single_fleet's local fleet_df
    resp,      \* resp[t]: the response t returned last
    first,     \* first[i]: the first response ever returned for input i
    nreq,      \* number of requests received so far
    taken,     \* positions of the table's rows already fed to the aggregation
    inorder,   \* whether the rows were fed in the table's own order so far
    acc,       \* the aggregation's groups after the rows fed so far
    out        \* the summary records computed from acc once every row is fed

vars == <<pc, req, df, data, summary, fleet_df, resp, first, nreq, taken, inorder, acc, out>>

(***************************************************************************)
(* Bounds of the model.                                                    *)
(***************************************************************************)
\* worker threads serving requests at the same time
NumThreads == 2
\* requests received in one run
MaxRequests == 3

Threads == 1..NumThreads

(***************************************************************************)
(* Sequences and strings.                                                  *)
(***************************************************************************)
Range(s) == {s[i] : i \in DOMAIN s}

\* list * n
RECURSIVE Repeat(_, _)
Repeat(s, n) == IF n = 0 THEN <<>> ELSE s \o Repeat(s, n - 1)

\* ord() of each character of the strings the model uses
CodePoints(s) ==
    CASE s = "F-18"    -> <<70, 45, 49, 56>>
      [] s = "CH-147"  -> <<67, 72, 45, 49, 52, 55>>
      [] s = "CP-140"  -> <<67, 80, 45, 49, 52, 48>>
      [] s = "f-18"    -> <<102, 45, 49, 56>>
      [] s = "UNKNOWN" -> <<85, 78, 75, 78, 79, 87, 78>>

\* Python's str.__lt__: lexicographic on code points
RECURSIVE LexLess(_, _)
LexLess(a, b) ==
    IF b = <<>> THEN FALSE
    ELSE IF a = <<>> THEN TRUE
    ELSE IF a[1] # b[1] THEN a[1] < b[1]
    ELSE LexLess(Tail(a), Tail(b))

StrLess(a, b) == LexLess(CodePoints(a), CodePoints(b))

\* str.upper() on code points (ASCII letters)
UpperCodes(c) == [i \in DOMAIN c |-> IF c[i] >= 97 /\ c[i] <= 122 THEN c[i] - 32 ELSE c[i]]

\* a == b with the case folded away
StrEqIgnoreCase(a, b) == UpperCodes(CodePoints(a)) = UpperCodes(CodePoints(b))

\* Python's str.__eq__
StrEq(a, b) == a = b

\* sorted(set of str) as a sequence
RECURSIVE SortedStrs(_)
SortedStrs(S) ==
    IF S = {} THEN <<>>
    ELSE LET m == CHOOSE x \in S : \A y \in S \ {x} : StrLess(x, y)
         IN  <<m>> \o SortedStrs(S \ {m})

(***************************************************************************)
(* get_fleet_data: the literal dict of columns and the DataFrame built     *)
(* from it.                                                                *)
(***************************************************************************)
DataKeys == <<"fleet_id", "month", "availability", "missions_completed", "maintenance_hours">>

DataDtypes == <<"object", "object", "int64", "int64", "int64">>

Months == <<"Jan", "Feb", "Mar", "Apr">>

RawData ==
    [fleet_id           |-> <<"F-18", "F-18", "F-18", "F-18",
                              "CH-147", "CH-147", "CH-147", "CH-147",
                              "CP-140", "CP-140", "CP-140", "CP-140">>,
     month              |-> Repeat(Months, 3),
     availability       |-> <<85, 87, 82, 88,
                              72, 75, 78, 80,
                              90, 88, 92, 91>>,
     missions_completed |-> <<45, 52, 38, 55,
                              28, 32, 35, 40,
                              62, 58, 65, 63>>,
     maintenance_hours  |-> <<320, 280, 360, 250,
                              450, 420, 380, 350,
                              180, 210, 160, 175>>]

\* pd.DataFrame(dict of equal-length lists): one row per list position, columns in
\* the dict's key order, a RangeIndex
DataFrame(d) ==
    LET n == Len(d[DataKeys[1]])
    IN  [index_name |-> "",
         index      |-> [i \in 1..n |-> i - 1],
         columns    |-> DataKeys,
         dtypes     |-> DataDtypes,
         rows       |-> [i \in 1..n |-> [j \in 1..Len(DataKeys) |-> d[DataKeys[j]][i]]]]

\* a table kept at module level that gains four rows with every request received
get_fleet_data_growing ==
    DataFrame([k \in DOMAIN RawData |-> SubSeq(RawData[k], 1, 4 * nreq)])

get_fleet_data == DataFrame(RawData)

\* a local that holds no frame yet
NoFrame == [index_name |-> "", index |-> <<>>, columns |-> <<>>, dtypes |-> <<>>, rows |-> <<>>]

(***************************************************************************)
(* The pandas operations the handlers use.                                 *)
(***************************************************************************)
ColPos(f, c) == CHOOSE j \in DOMAIN f.columns : f.columns[j] = c

\* df[c]
Column(f, c) == [i \in DOMAIN f.rows |-> f.rows[i][ColPos(f, c)]]

\* to_dict that stops one row short
to_dict_records_short(f) ==
    [i \in 1..(Len(f.rows) - 1) |-> [c \in Range(f.columns) |-> f.rows[i][ColPos(f, c)]]]

\* df.to_dict(orient='records'): one dict per row, keyed by column name
to_dict_records(f) ==
    [i \in DOMAIN f.rows |-> [c \in Range(f.columns) |-> f.rows[i][ColPos(f, c)]]]

\* series == value: the boolean mask
SeriesEq(s, v) == [i \in DOMAIN s |-> StrEq(s[i], v)]

\* positions of the rows a mask keeps, ascending
RECURSIVE Kept(_, _)
Kept(mask, i) ==
    IF i > Len(mask) THEN <<>>
    ELSE (IF mask[i] THEN <<i>> ELSE <<>>) \o Kept(mask, i + 1)

\* a filter that stops at the first row the mask keeps
BoolIndexFirst(f, mask) ==
    LET all == Kept(mask, 1)
        k   == IF all = <<>> THEN <<>> ELSE <<all[1]>>
    IN  [f EXCEPT !.index = [i \in DOMAIN k |-> f.index[k[i]]],
                  !.rows  = [i \in DOMAIN k |-> f.rows[k[i]]]]

\* df[mask]: the rows whose mask is True, in order, with their index labels
BoolIndex(f, mask) ==
    LET k == Kept(mask, 1)
    IN  [f EXCEPT !.index = [i \in DOMAIN k |-> f.index[k[i]]],
                  !.rows  = [i \in DOMAIN k |-> f.rows[k[i]]]]

\* fleet_df.empty
IsEmpty(f) == Len(f.rows) = 0

(***************************************************************************)
(* groupby('fleet_id').agg({...}).round(1)                                 *)
(***************************************************************************)
\* the dict given to .agg, in its key order
AggSpec == << <<"availability", "mean">>,
              <<"missions_completed", "sum">>,
              <<"maintenance_hours", "sum">> >>

\* no row grouped yet: order lists the keys by first appearance, n[k] counts the
\* rows of group k, sums[k][j] adds up the j-th aggregated column over them
NoGroups == [order |-> <<>>, n |-> <<>>, sums |-> <<>>]

\* an aggregation that keeps the last row's cells of each group instead of adding them
GroupFeedLast(g, k, c) ==
    IF k \in DOMAIN g.n
    THEN [g EXCEPT !.n[k] = @ + 1, !.sums[k] = c]
    ELSE [order |-> Append(g.order, k),
          n     |-> (k :> 1) @@ g.n,
          sums  |-> (k :> c) @@ g.sums]

\* one more row, of key k and cells c (one per aggregated column), joins its group
GroupFeed(g, k, c) ==
    IF k \in DOMAIN g.n
    THEN [g EXCEPT !.n[k] = @ + 1,
                   !.sums[k] = [j \in DOMAIN c |-> @[j] + c[j]]]
    ELSE [order |-> Append(g.order, k),
          n     |-> (k :> 1) @@ g.n,
          sums  |-> (k :> c) @@ g.sums]

\* the key and the aggregated cells of row i of frame f
RowKey(f, by, i) == f.rows[i][ColPos(f, by)]

RowCells(f, i) == [j \in DOMAIN AggSpec |-> f.rows[i][ColPos(f, AggSpec[j][1])]]

\* the rows of f from position i on, grouped in row order
RECURSIVE FeedRows(_, _, _, _)
FeedRows(g, f, by, i) ==
    IF i > Len(f.rows) THEN g
    ELSE FeedRows(GroupFeed(g, RowKey(f, by, i), RowCells(f, i)), f, by, i + 1)

\* groupby(sort=False): the groups in order of first appearance
GroupKeysUnsorted(g) == g.order

\* a result that loses its last group
GroupKeysDropLast(g) ==
    LET keys == SortedStrs(Range(g.order))
    IN  SubSeq(keys, 1, Len(keys) - 1)

\* the order of the groups in the result: groupby sorts the keys (sort=True)
GroupKeys(g) == SortedStrs(Range(g.order))

\* 'sum' given for every column, availability included
AggValueSum(how, s, n) == IF how = "mean" THEN [num |-> s, den |-> 1] ELSE s

\* the value of one aggregation over a group: 'mean' is sum / count, 'sum' the sum
AggValue(how, s, n) == IF how = "mean" THEN [num |-> s, den |-> n] ELSE s

AggDtype(how) == IF how = "mean" THEN "float64" ELSE "int64"

\* the aggregated frame: one row per group, indexed by the key
Aggregated(g, by) ==
    LET keys == GroupKeys(g)
    IN  [index_name |-> by,
         index      |-> keys,
         columns    |-> [j \in DOMAIN AggSpec |-> AggSpec[j][1]],
         dtypes     |-> [j \in DOMAIN AggSpec |-> AggDtype(AggSpec[j][2])],
         rows       |-> [i \in DOMAIN keys |->
                           [j \in DOMAIN AggSpec |->
                              AggValue(AggSpec[j][2], g.sums[keys[i]][j], g.n[keys[i]])]]]

groupby_agg(f, by) == Aggregated(FeedRows(NoGroups, f, by, 1), by)

\* round half up to one decimal, in tenths
RoundHalfUp1(q) ==
    LET k == (10 * q.num) \div q.den
        r == (10 * q.num) % q.den
    IN  [tenths |-> IF 2 * r >= q.den THEN k + 1 ELSE k]

\* numpy's round to one decimal, in tenths: to the nearest, a tie to the even one
Round1(q) ==
    LET k == (10 * q.num) \div q.den
        r == (10 * q.num) % q.den
    IN  [tenths |-> IF 2 * r < q.den THEN k
                    ELSE IF 2 * r > q.den THEN k + 1
                    ELSE IF k % 2 = 0 THEN k ELSE k + 1]

\* DataFrame.round(1): float columns are rounded, integer columns are left alone
round1(f) ==
    [f EXCEPT !.rows = [i \in DOMAIN f.rows |->
                          [j \in DOMAIN f.columns |->
                             IF f.dtypes[j] = "float64" THEN Round1(f.rows[i][j])
                             ELSE f.rows[i][j]]]]

\* reset_index(): the index becomes the first column, under its name
reset_index(f) ==
    [index_name |-> "",
     index      |-> [i \in DOMAIN f.rows |-> i - 1],
     columns    |-> <<f.index_name>> \o f.columns,
     dtypes     |-> <<"object">> \o f.dtypes,
     rows       |-> [i \in DOMAIN f.rows |-> <<f.index[i]>> \o f.rows[i]]]

SummaryColumns == <<"fleet_id", "avg_availability", "total_missions", "total_maintenance_hours">>

\* summary.columns = [...]: the columns are renamed by position
set_columns(f, names) == [f EXCEPT !.columns = names]

(***************************************************************************)
(* Responses.  A JSON body is an object or an array; the field the body    *)
(* does not use stays empty.                                               *)
(***************************************************************************)
NoObject == [none |-> TRUE]

NoResp == [status |-> 0, kind |-> "none", object |-> NoObject, array |-> <<>>]

\* jsonify(dict), status 200
jsonify_object(o) == [status |-> 200, kind |-> "object", object |-> o, array |-> <<>>]

\* jsonify(list), status 200
jsonify_array(a) == [status |-> 200, kind |-> "array", object |-> NoObject, array |-> a]

\* return response, code
with_status(r, code) == [r EXCEPT !.status = code]

HomeBody == [status |-> "online", message |-> "Fleet Dashboard API"]

NotFoundBody == [error |-> "Fleet not found"]

(***************************************************************************)
(* Requests.                                                               *)
(***************************************************************************)
\* values of the <fleet_id> URL parameter
FleetIdInputs == {"F-18", "CH-147", "CP-140", "f-18", "UNKNOWN"}

Inputs ==
    {[endpoint |-> e, fleet_id |-> ""] : e \in {"/", "/api/fleet-data", "/api/fleet-summary"}}
    \cup {[endpoint |-> "/api/fleet/<fleet_id>", fleet_id |-> x] : x \in FleetIdInputs}

NoReq == [endpoint |-> "", fleet_id |-> ""]

\* the first statement of the handler Flask routes the request to
Entry(i) ==
    CASE i.endpoint = "/"                       -> "home_return"
      [] i.endpoint = "/api/fleet-data"         -> "all_df"
      [] i.endpoint = "/api/fleet-summary"      -> "summary_df"
      [] i.endpoint = "/api/fleet/<fleet_id>"   -> "single_df"

(***************************************************************************)
(* The server: each worker thread takes a request, runs the handler Flask  *)
(* routes it to one statement at a time, and returns its response.         *)
(***************************************************************************)
ServerInit ==
    /\ pc = [t \in Threads |-> "idle"]
    /\ req = [t \in Threads |-> NoReq]
    /\ df = [t \in Threads |-> NoFrame]
    /\ data = [t \in Threads |-> <<>>]
    /\ summary = [t \in Threads |-> NoFrame]
    /\ fleet_df = [t \in Threads |-> NoFrame]
    /\ resp = [t \in Threads |-> NoResp]
    /\ first = [i \in Inputs |-> NoResp]
    /\ nreq = 0

FoldInit ==
    /\ taken = {}
    /\ inorder = TRUE
    /\ acc = NoGroups
    /\ out = <<>>

Init == ServerInit /\ FoldInit

serverVars == <<pc, req, df, data, summary, fleet_df, resp, first, nreq>>

foldVars == <<taken, inorder, acc, out>>

\* a free worker takes request i: a fresh call frame, no local bound yet
Receive(t, i) ==
    /\ pc[t] \in {"idle", "done"}
    /\ nreq < MaxRequests
    /\ nreq' = nreq + 1
    /\ req' = [req EXCEPT ![t] = i]
    /\ pc' = [pc EXCEPT ![t] = Entry(i)]
    /\ df' = [df EXCEPT ![t] = NoFrame]
    /\ data' = [data EXCEPT ![t] = <<>>]
    /\ summary' = [summary EXCEPT ![t] = NoFrame]
    /\ fleet_df' = [fleet_df EXCEPT ![t] = NoFrame]
    /\ resp' = [resp EXCEPT ![t] = NoResp]
    /\ UNCHANGED <<first, foldVars>>

\* the handler of t returns r: the response goes out, and is remembered as the
\* first one for its input when none was returned before
Return(t, r) ==
    /\ resp' = [resp EXCEPT ![t] = r]
    /\ first' = IF first[req[t]] = NoResp THEN [first EXCEPT ![req[t]] = r] ELSE first
    /\ pc' = [pc EXCEPT ![t] = "done"]

\* home: return jsonify({...})
home(t) ==
    /\ pc[t] = "home_return"
    /\ Return(t, jsonify_object(HomeBody))
    /\ UNCHANGED <<req, df, data, summary, fleet_df, nreq, foldVars>>

\* df = get_fleet_data(), in any of the three handlers that start with it
call_get_fleet_data(t) ==
    /\ pc[t] \in {"all_df", "summary_df", "single_df"}
    /\ df' = [df EXCEPT ![t] = get_fleet_data]
    /\ pc' = [pc EXCEPT ![t] = CASE pc[t] = "all_df"     -> "all_to_dict"
                                 [] pc[t] = "summary_df" -> "summary_agg"
                                 [] pc[t] = "single_df"  -> "single_filter"]
    /\ UNCHANGED <<req, data, summary, fleet_df, resp, first, nreq, foldVars>>

\* get_all_fleet_data: data = df.to_dict(orient='records')
all_to_dict(t) ==
    /\ pc[t] = "all_to_dict"
    /\ data' = [data EXCEPT ![t] = to_dict_records(df[t])]
    /\ pc' = [pc EXCEPT ![t] = "all_return"]
    /\ UNCHANGED <<req, df, summary, fleet_df, resp, first, nreq, foldVars>>

\* get_all_fleet_data: return jsonify(data)
all_return(t) ==
    /\ pc[t] = "all_return"
    /\ Return(t, jsonify_array(data[t]))
    /\ UNCHANGED <<req, df, data, summary, fleet_df, nreq, foldVars>>

\* get_fleet_summary: summary = df.groupby('fleet_id').agg({...}).round(1)
summary_agg(t) ==
    /\ pc[t] = "summary_agg"
    /\ summary' = [summary EXCEPT ![t] = round1(groupby_agg(df[t], "fleet_id"))]
    /\ pc' = [pc EXCEPT ![t] = "summary_reset"]
    /\ UNCHANGED <<req, df, data, fleet_df, resp, first, nreq, foldVars>>

\* get_fleet_summary: summary = summary.reset_index()
summary_reset(t) ==
    /\ pc[t] = "summary_reset"
    /\ summary' = [summary EXCEPT ![t] = reset_index(summary[t])]
    /\ pc' = [pc EXCEPT ![t] = "summary_rename"]
    /\ UNCHANGED <<req, df, data, fleet_df, resp, first, nreq, foldVars>>

\* get_fleet_summary: summary.columns = [...]
summary_rename(t) ==
    /\ pc[t] = "summary_rename"
    /\ summary' = [summary EXCEPT ![t] = set_columns(summary[t], SummaryColumns)]
    /\ pc' = [pc EXCEPT ![t] = "summary_return"]
    /\ UNCHANGED <<req, df, data, fleet_df, resp, first, nreq, foldVars>>

\* get_fleet_summary: return jsonify(summary.to_dict(orient='records'))
summary_return(t) ==
    /\ pc[t] = "summary_return"
    /\ Return(t, jsonify_array(to_dict_records(summary[t])))
    /\ UNCHANGED <<req, df, data, summary, fleet_df, nreq, foldVars>>

\* a filter that narrows one df shared by every worker, instead of binding a local
single_filter_shared(t) ==
    /\ pc[t] = "single_filter"
    /\ fleet_df' = [fleet_df EXCEPT ![t] =
                      BoolIndex(df[t], SeriesEq(Column(df[t], "fleet_id"), req[t].fleet_id))]
    /\ df' = [u \in Threads |-> IF df[u] = NoFrame THEN NoFrame ELSE fleet_df'[t]]
    /\ pc' = [pc EXCEPT ![t] = "single_return"]
    /\ UNCHANGED <<req, data, summary, resp, first, nreq, foldVars>>

\* get_single_fleet: fleet_df = df[df['fleet_id'] == fleet_id]
single_filter(t) ==
    /\ pc[t] = "single_filter"
    /\ fleet_df' = [fleet_df EXCEPT ![t] =
                      BoolIndex(df[t], SeriesEq(Column(df[t], "fleet_id"), req[t].fleet_id))]
    /\ pc' = [pc EXCEPT ![t] = "single_return"]
    /\ UNCHANGED <<req, df, data, summary, resp, first, nreq, foldVars>>

\* get_single_fleet: if fleet_df.empty: return jsonify({...}), 404
single_not_found(t) ==
    /\ pc[t] = "single_return"
    /\ IsEmpty(fleet_df[t])
    /\ Return(t, with_status(jsonify_object(NotFoundBody), 404))
    /\ UNCHANGED <<req, df, data, summary, fleet_df, nreq, foldVars>>

\* get_single_fleet: return jsonify(fleet_df.to_dict(orient='records'))
single_return(t) ==
    /\ pc[t] = "single_return"
    /\ ~IsEmpty(fleet_df[t])
    /\ Return(t, jsonify_array(to_dict_records(fleet_df[t])))
    /\ UNCHANGED <<req, df, data, summary, fleet_df, nreq, foldVars>>

Next ==
    \E t \in Threads :
        \/ \E i \in Inputs : Receive(t, i)
        \/ home(t)
        \/ call_get_fleet_data(t)
        \/ all_to_dict(t)
        \/ all_return(t)
        \/ summary_agg(t)
        \/ summary_reset(t)
        \/ summary_rename(t)
        \/ summary_return(t)
        \/ single_filter(t)
        \/ single_not_found(t)
        \/ single_return(t)

Spec == Init /\ [][Next]_vars

(***************************************************************************)
(* A handler run from its first statement to its return with nothing in    *)
(* between: the response a request gets when it is served alone.           *)
(***************************************************************************)
\* get_fleet_summary's statements, one after the other, on frame f
summarize(f) ==
    to_dict_records(set_columns(reset_index(round1(groupby_agg(f, "fleet_id"))),
                                SummaryColumns))

ServeAlone(i) ==
    CASE i.endpoint = "/" -> jsonify_object(HomeBody)
      [] i.endpoint = "/api/fleet-data" -> jsonify_array(to_dict_records(get_fleet_data))
      [] i.endpoint = "/api/fleet-summary" -> jsonify_array(summarize(get_fleet_data))
      [] i.endpoint = "/api/fleet/<fleet_id>" ->
            LET f == BoolIndex(get_fleet_data,
                               SeriesEq(Column(get_fleet_data, "fleet_id"), i.fleet_id))
            IN  IF IsEmpty(f) THEN with_status(jsonify_object(NotFoundBody), 404)
                ELSE jsonify_array(to_dict_records(f))

(***************************************************************************)
(* The aggregation over the table's rows taken in any order: each          *)
(* behaviour feeds the twelve rows to the grouping in one permutation,     *)
(* and then computes the summary records as get_fleet_summary does.        *)
(***************************************************************************)
RowPositions == DOMAIN get_fleet_data.rows

\* the next row of the permuted table is row i of the literal one
Feed(i) ==
    /\ i \in RowPositions \ taken
    /\ acc' = GroupFeed(acc, RowKey(get_fleet_data, "fleet_id", i), RowCells(get_fleet_data, i))
    /\ taken' = taken \cup {i}
    /\ inorder' = (inorder /\ i = Cardinality(taken) + 1)
    /\ UNCHANGED <<out, serverVars>>

\* every row is grouped: .agg(...).round(1), reset_index(), the renaming, to_dict
Finish ==
    /\ taken = RowPositions
    /\ out = <<>>
    /\ out' = to_dict_records(set_columns(reset_index(round1(Aggregated(acc, "fleet_id"))),
                                          SummaryColumns))
    /\ UNCHANGED <<taken, inorder, acc, serverVars>>

PermNext == (\E i \in RowPositions : Feed(i)) \/ Finish

PermSpec == Init /\ [][PermNext]_vars

(***************************************************************************)
(* The table read straight from the literal columns, for stating what the  *)
(* responses must hold.                                                    *)
(***************************************************************************)
Positions == DOMAIN RawData.fleet_id

\* row k of the literal table as a record
Rec(k) == [c \in Range(DataKeys) |-> RawData[c][k]]

\* positions of the rows of fleet x
RowsOf(x) == {k \in Positions : RawData.fleet_id[k] = x}

FleetIds == {RawData.fleet_id[k] : k \in Positions}

\* sum of column c over the positions in S
RECURSIVE SumOver(_, _)
SumOver(S, c) ==
    IF S = {} THEN 0
    ELSE LET k == CHOOSE k \in S : TRUE IN RawData[c][k] + SumOver(S \ {k}, c)

\* the exact mean of availability over fleet x's rows
MeanOf(x) == [num |-> SumOver(RowsOf(x), "availability"), den |-> Cardinality(RowsOf(x))]

\* the mean q lies exactly halfway between two one-decimal values
IsTie(q) == 2 * ((10 * q.num) % q.den) = q.den

Served(t, e) == pc[t] = "done" /\ req[t].endpoint = e

\* the fleet_id values of a summary body, in its order
FleetIdsOf(b) == [j \in DOMAIN b |-> b[j].fleet_id]

(***************************************************************************)
(* Claims.                                                                 *)
(***************************************************************************)
\* C1: get_single_fleet answers 404 with {"error":"Fleet not found"} exactly when no
\* row's fleet_id equals the input, case and all ("f-18" and "UNKNOWN" are not
\* found); no other request of the four endpoints gets an error: it gets 200.
C1_NotFoundIffNoRow ==
    \A t \in Threads :
        pc[t] = "done" =>
            /\ resp[t].status \in {200, 404}
            /\ resp[t].status = 404 <=>
                  /\ req[t].endpoint = "/api/fleet/<fleet_id>"
                  /\ RowsOf(req[t].fleet_id) = {}
            /\ resp[t].status = 404 =>
                  resp[t].kind = "object" /\ resp[t].object = NotFoundBody
            /\ req[t].fleet_id \in {"f-18", "UNKNOWN"} => resp[t].status = 404

C1_Witness ==
    \E t, u \in Threads :
        /\ Served(t, "/api/fleet/<fleet_id>") /\ req[t].fleet_id = "f-18"
        /\ resp[t].status = 404 /\ resp[t].object = NotFoundBody
        /\ Served(u, "/api/fleet/<fleet_id>") /\ req[u].fleet_id = "F-18"
        /\ resp[u].status = 200

\* C2: for a fleet_id that matches a row, get_single_fleet answers 200 with exactly
\* the table's rows of that fleet_id: each returned row has it, no matching row is
\* left out or given twice, and the rows keep the table's order; "F-18" gives 4.
C2_ExactlyTheMatchingRows ==
    \A t \in Threads :
        (Served(t, "/api/fleet/<fleet_id>") /\ RowsOf(req[t].fleet_id) # {}) =>
            LET b == resp[t].array
                M == RowsOf(req[t].fleet_id)
                pos(j) == CHOOSE k \in Positions : Rec(k) = b[j]
            IN  /\ resp[t].status = 200 /\ resp[t].kind = "array"
                /\ \A j \in DOMAIN b : b[j].fleet_id = req[t].fleet_id
                /\ \A j \in DOMAIN b : \E k \in M : Rec(k) = b[j]
                /\ \A k \in M : \E j \in DOMAIN b : b[j] = Rec(k)
                /\ \A i, j \in DOMAIN b : i < j => (b[i] # b[j] /\ pos(i) < pos(j))
                /\ req[t].fleet_id = "F-18" => Len(b) = 4

C2_Witness ==
    \E t \in Threads :
        /\ Served(t, "/api/fleet/<fleet_id>") /\ req[t].fleet_id = "F-18"
        /\ resp[t].status = 200 /\ Len(resp[t].array) = 4

\* C3: in get_fleet_summary's result every fleet_id of the table is in exactly one
\* object, no object has a fleet_id the table lacks, and there are 3 objects.
C3_OneObjectPerFleet ==
    \A t \in Threads :
        Served(t, "/api/fleet-summary") =>
            LET b == resp[t].array
            IN  /\ resp[t].kind = "array"
                /\ \A x \in FleetIds : Cardinality({j \in DOMAIN b : b[j].fleet_id = x}) = 1
                /\ \A j \in DOMAIN b : b[j].fleet_id \in FleetIds
                /\ Len(b) = 3

C3_Witness ==
    \E t \in Threads :
        /\ Served(t, "/api/fleet-summary")
        /\ {resp[t].array[j].fleet_id : j \in DOMAIN resp[t].array} = {"F-18", "CH-147", "CP-140"}

\* C4: each fleet's summary object has total_missions and total_maintenance_hours
\* equal to the sums over the fleet's rows, and avg_availability equal to the mean
\* of availability over them rounded to one decimal (a one-decimal value at most
\* 0.05 from the mean); for "F-18": 85.5, 190 and 1210.
C4_SummaryValues ==
    \A t \in Threads :
        Served(t, "/api/fleet-summary") =>
            LET b == resp[t].array
            IN  /\ \A x \in FleetIds : \E j \in DOMAIN b : b[j].fleet_id = x
                /\ \A j \in DOMAIN b :
                      LET x  == b[j].fleet_id
                          q  == MeanOf(x)
                          d  == 10 * q.num - b[j].avg_availability.tenths * q.den
                      IN  /\ b[j].total_missions = SumOver(RowsOf(x), "missions_completed")
                          /\ b[j].total_maintenance_hours = SumOver(RowsOf(x), "maintenance_hours")
                          /\ 2 * d <= q.den /\ -(2 * d) <= q.den
                          /\ x = "F-18" =>
                                /\ b[j].avg_availability = [tenths |-> 855]
                                /\ b[j].total_missions = 190
                                /\ b[j].total_maintenance_hours = 1210

C4_Witness ==
    \E t \in Threads :
        /\ Served(t, "/api/fleet-summary")
        /\ \E j \in DOMAIN resp[t].array :
              /\ resp[t].array[j].fleet_id = "F-18"
              /\ resp[t].array[j].avg_availability = [tenths |-> 855]
              /\ resp[t].array[j].total_missions = 190

\* C5: get_all_fleet_data returns the table as it is, row for row in the literal's
\* order: 12 records, fleet_id values {"F-18","CH-147","CP-140"}, each fleet with
\* 4 rows, one for each of Jan, Feb, Mar, Apr.
C5_WholeTableInOrder ==
    \A t \in Threads :
        Served(t, "/api/fleet-data") =>
            LET b == resp[t].array
            IN  /\ resp[t].status = 200 /\ resp[t].kind = "array"
                /\ Len(b) = 12
                /\ \A k \in DOMAIN b : b[k] = Rec(k)
                /\ {b[k].fleet_id : k \in DOMAIN b} = {"F-18", "CH-147", "CP-140"}
                /\ \A x \in {"F-18", "CH-147", "CP-140"} :
                      /\ Cardinality({k \in DOMAIN b : b[k].fleet_id = x}) = 4
                      /\ \A m \in {"Jan", "Feb", "Mar", "Apr"} :
                            Cardinality({k \in DOMAIN b : b[k].fleet_id = x /\ b[k].month = m}) = 1

C5_Witness ==
    \E t \in Threads :
        /\ Served(t, "/api/fleet-data")
        /\ Len(resp[t].array) = 12
        /\ resp[t].array[12].fleet_id = "CP-140" /\ resp[t].array[12].month = "Apr"

\* C6: whatever was requested before, a response equals the first response ever
\* returned for the same input, and every df a handler holds is the same table.
C6_Idempotent ==
    \A t \in Threads :
        /\ pc[t] = "done" => resp[t] = first[req[t]]
        /\ df[t] # NoFrame => \A u \in Threads : df[u] # NoFrame => df[u] = df[t]

C6_Witness ==
    \E t, u \in Threads :
        /\ t # u
        /\ pc[t] = "done" /\ pc[u] = "done"
        /\ req[t] = req[u] /\ req[t].endpoint = "/api/fleet-summary"
        /\ resp[t] = resp[u]

\* C7: the summary does not depend on the order of the table's rows: computed from
\* any permutation of the rows it holds the same objects as computed from the
\* table as written.
C7_OrderIndependent ==
    out # <<>> =>
        /\ Range(out) = Range(summarize(get_fleet_data))
        /\ Len(out) = Len(summarize(get_fleet_data))

C7_Witness == out # <<>> /\ ~inorder /\ Len(out) = 3

\* C8 as stated: no fleet's mean availability is a tie between two one-decimal
\* values, so rounding half up gives every avg_availability of the summary.
C8_NoTie ==
    \A t \in Threads :
        Served(t, "/api/fleet-summary") =>
            \A j \in DOMAIN resp[t].array :
                LET q == MeanOf(resp[t].array[j].fleet_id)
                IN  ~IsTie(q) /\ resp[t].array[j].avg_availability = RoundHalfUp1(q)

\* C8 amended: only F-18's mean (85.5) is no tie; the means of CH-147 (76.25) and
\* CP-140 (90.25) are ties, which the summary rounds to the even tenth, 76.2 and
\* 90.2, where rounding half up gives 76.3 and 90.3.
C8_TiesRoundToEven ==
    \A t \in Threads :
        Served(t, "/api/fleet-summary") =>
            \A j \in DOMAIN resp[t].array :
                LET x == resp[t].array[j].fleet_id
                    a == resp[t].array[j].avg_availability
                    q == MeanOf(x)
                IN  /\ x = "F-18" => (~IsTie(q) /\ a = [tenths |-> 855] /\ a = RoundHalfUp1(q))
                    /\ x = "CH-147" =>
                          (IsTie(q) /\ a = [tenths |-> 762] /\ RoundHalfUp1(q) = [tenths |-> 763])
                    /\ x = "CP-140" =>
                          (IsTie(q) /\ a = [tenths |-> 902] /\ RoundHalfUp1(q) = [tenths |-> 903])

C8_Witness ==
    \E t \in Threads :
        /\ Served(t, "/api/fleet-summary")
        /\ \E j \in DOMAIN resp[t].array :
              /\ resp[t].array[j].fleet_id = "CH-147"
              /\ resp[t].array[j].avg_availability = [tenths |-> 762]

\* C9: with requests served at the same time, in every interleaving of the handlers'
\* statements each df bound is the whole table and each response is the one the
\* request gets when served alone.
C9_Isolation ==
    \A t \in Threads :
        /\ df[t] # NoFrame => Len(df[t].rows) = 12
        /\ pc[t] = "done" => resp[t] = ServeAlone(req[t])

C9_Witness ==
    \E t, u \in Threads :
        /\ t # u
        /\ Served(t, "/api/fleet-data")
        /\ req[u].endpoint = "/api/fleet/<fleet_id>" /\ pc[u] = "single_return"
        /\ req[u].fleet_id = "CH-147"

\* C10: the summary objects come in ascending fleet_id order, CH-147, CP-140, F-18,
\* not in the table's order of first appearance, which starts with F-18; every
\* summary response has this order.
C10_SortedByFleetId ==
    \A t \in Threads :
        Served(t, "/api/fleet-summary") =>
            LET ids == FleetIdsOf(resp[t].array)
            IN  /\ ids = <<"CH-147", "CP-140", "F-18">>
                /\ \A i, j \in DOMAIN ids : i < j => StrLess(ids[i], ids[j])
                /\ ids[1] # RawData.fleet_id[1]

C10_Witness ==
    \E t \in Threads :
        /\ Served(t, "/api/fleet-summary")
        /\ resp[t].array[1].fleet_id = "CH-147"
        /\ RawData.fleet_id[1] = "F-18"

====
